---- MODULE Spec2Model ----
(***************************************************************************)
(* Model of the common vector operations documented in                     *)
(* doc/dox-common-ops.h of the Vc library: vectors of Size lanes, masks,   *)
(* the masked write proxy v(mask), makeZero, comparisons, Memory, and the  *)
(* gather / scatter functions.                                             *)
(*                                                                         *)
(* A vector and a mask are functions over the lanes 0 .. N-1.  All the     *)
(* operators work on the lanes of their argument (DOMAIN), so that the     *)
(* same definitions serve the bounded lane count Size and the 4-lane       *)
(* vectors of the documented examples.                                     *)
(***************************************************************************)
EXTENDS Integers, Sequences, FiniteSets, TLC

VARIABLES pc, op, v, rhs, m, pre, err, v2, args, array, indexes, accesses,
          form, res, mem, fn, k

vars == <<pc, op, v, rhs, m, pre, err, v2, args, array, indexes, accesses,
          form, res, mem, fn, k>>

(***************************************************************************)
(* Bounds.                                                                 *)
(***************************************************************************)
\* number of lanes of the vector types explored exhaustively
Size == 3
\* number of lanes of the vectors handed to gather and scatter
GatherLanes == 2
\* lane values of the inputs are 0 .. MaxVal
MaxVal == 1
\* number of elements of the arrays addressed by gather and scatter
ArrayLen == 2
\* width in bits of the (unsigned) entry type
EntryBits == 6

\* number of lanes of the vectors in the documented examples
DocSize == 4

Modulus == 2 ^ EntryBits
Val == 0 .. MaxVal
Lanes(n) == 0 .. (n - 1)
Vectors(n) == [Lanes(n) -> Val]
Masks(n) == [Lanes(n) -> BOOLEAN]
NumLanes(vec) == Cardinality(DOMAIN vec)

\* the vector [s[1], s[2], ...] with lanes numbered from 0
Vec(s) == [i \in Lanes(Len(s)) |-> s[i + 1]]

\* an object that is not in use in a specification
NoVec == <<>>
NoPre == [v |-> NoVec, rhs |-> NoVec, m |-> NoVec, array |-> NoVec]

\* arithmetic of the entry type
Wrap(x) == x % Modulus

(***************************************************************************)
(* Constructors.                                                           *)
(***************************************************************************)
Zero(n) == [i \in Lanes(n) |-> 0]
One(n) == [i \in Lanes(n) |-> 1]
\* (variant: the entries counted from one)
IndexesFromOne(n) == [i \in Lanes(n) |-> i + 1]

IndexesFromZero(n) == [i \in Lanes(n) |-> i]
Broadcast(n, x) == [i \in Lanes(n) |-> x]
AllTrue(n) == [i \in Lanes(n) |-> TRUE]
AllFalse(n) == [i \in Lanes(n) |-> FALSE]

(***************************************************************************)
(* makeZero() and makeZero(mask).                                          *)
(***************************************************************************)
MakeZero(vec) == [i \in DOMAIN vec |-> 0]

\* (variant: the mask read the wrong way round)
MakeZeroMaskedInverted(vec, mask) == [i \in DOMAIN vec |-> IF mask[i] THEN vec[i] ELSE 0]

MakeZeroMasked(vec, mask) == [i \in DOMAIN vec |-> IF mask[i] THEN 0 ELSE vec[i]]

(***************************************************************************)
(* The write proxy returned by operator()(mask): assignment, compound      *)
(* assignment and increment through the mask.                              *)
(***************************************************************************)
AssignOps == {"=", "+=", "-=", "*=", "/="}
IncrementOps == {"++", "--"}

\* the scalar operation behind an assignment-like operator (a division by
\* zero has no value: see Faults; the 0 keeps the expression defined)
ApplyOp(o, a, b) ==
    CASE o = "="  -> b
      [] o = "+=" -> Wrap(a + b)
      [] o = "-=" -> Wrap(a - b)
      [] o = "*=" -> Wrap(a * b)
      [] o = "/=" -> IF b = 0 THEN 0 ELSE a \div b
      [] o = "++" -> Wrap(a + 1)
      [] o = "--" -> Wrap(a - 1)

\* the operator cannot be evaluated on this lane (integer division by zero)
Faults(o, a, b) == o = "/=" /\ b = 0

\* plain assignment v = r
Assign(vec, r) == r

\* (variant: every lane is evaluated and its fault reported)
FaultLanesUnmasked(o, vec, mask, r) == {i \in DOMAIN vec : Faults(o, vec[i], r[i])}

\* the selected lanes on which the statement faults

FaultLanes(o, vec, mask, r) == {i \in DOMAIN vec : mask[i] /\ Faults(o, vec[i], r[i])}

\* (variant: the operator applied without the blend by the mask)
MaskedWriteAllLanes(o, vec, mask, r) == [i \in DOMAIN vec |-> ApplyOp(o, vec[i], r[i])]

\* (variant: the operands of the blend swapped)
MaskedWriteInverted(o, vec, mask, r) ==
    [i \in DOMAIN vec |-> IF mask[i] THEN vec[i] ELSE ApplyOp(o, vec[i], r[i])]

\* the lanes of v after v(mask) o r, where no selected lane faults
MaskedWrite(o, vec, mask, r) ==
    [i \in DOMAIN vec |-> IF mask[i] THEN ApplyOp(o, vec[i], r[i]) ELSE vec[i]]

\* the vectors the statement can leave behind: a selected lane that faults
\* holds an arbitrary value
MaskedOutcomes(o, vec, mask, r) ==
    IF FaultLanes(o, vec, mask, r) = {}
    THEN {MaskedWrite(o, vec, mask, r)}
    ELSE {w \in [DOMAIN vec -> Val] :
            \A i \in DOMAIN vec :
                i \notin FaultLanes(o, vec, mask, r) => w[i] = MaskedWrite(o, vec, mask, r)[i]}

(***************************************************************************)
(* Specification SpecMasked: a vector v, a right-hand side rhs and a mask  *)
(* m of the same Size exist; one statement acts on v.                      *)
(***************************************************************************)
\* 4-lane operands next to the exhaustively explored ones
DocVectors == {Vec(<<1, 2, 1, 2>>), Vec(<<2, 0, 1, 0>>)}
DocMasks ==
    {Vec(<<FALSE, TRUE, TRUE, TRUE>>), Vec(<<TRUE, FALSE, TRUE, FALSE>>),
     AllTrue(DocSize), AllFalse(DocSize)}

Unused ==
    /\ v2 = NoVec /\ args = <<>> /\ array = NoVec /\ indexes = NoVec
    /\ accesses = <<>> /\ form = "" /\ res = NoVec /\ mem = NoVec
    /\ fn = NoVec /\ k = 0

InitMasked ==
    /\ pc = "start" /\ op = "" /\ err = FALSE /\ pre = NoPre
    /\ \/ v \in Vectors(Size) /\ rhs \in Vectors(Size) /\ m \in Masks(Size)
       \/ v \in DocVectors /\ rhs \in DocVectors /\ m \in DocMasks
    /\ Unused

\* the operands as they are before the operation acts
Snapshot == [v |-> v, rhs |-> rhs, m |-> m, array |-> array]

Frame == UNCHANGED <<v2, args, array, indexes, accesses, form, res, mem, fn, k>>

\* v(m) o rhs
MaskedAssign(o) ==
    /\ pc = "start"
    /\ pc' = "done" /\ op' = o /\ pre' = Snapshot
    /\ v' \in MaskedOutcomes(o, v, m, rhs)
    /\ err' = (FaultLanes(o, v, m, rhs) # {})
    /\ UNCHANGED <<rhs, m>> /\ Frame

\* ++v(m), --v(m)
MaskedIncrement(o) ==
    /\ pc = "start"
    /\ pc' = "done" /\ op' = o /\ pre' = Snapshot
    /\ v' = MaskedWrite(o, v, m, rhs)
    /\ err' = FALSE
    /\ UNCHANGED <<rhs, m>> /\ Frame

\* v = rhs
PlainAssign ==
    /\ pc = "start"
    /\ pc' = "done" /\ op' = "plain=" /\ pre' = Snapshot
    /\ v' = Assign(v, rhs)
    /\ UNCHANGED <<rhs, m, err>> /\ Frame

\* v.makeZero()
DoMakeZero ==
    /\ pc = "start"
    /\ pc' = "done" /\ op' = "makeZero" /\ pre' = Snapshot
    /\ v' = MakeZero(v)
    /\ UNCHANGED <<rhs, m, err>> /\ Frame

\* v.makeZero(m)
DoMakeZeroMasked ==
    /\ pc = "start"
    /\ pc' = "done" /\ op' = "makeZero(mask)" /\ pre' = Snapshot
    /\ v' = MakeZeroMasked(v, m)
    /\ UNCHANGED <<rhs, m, err>> /\ Frame

NextMasked ==
    \/ \E o \in AssignOps : MaskedAssign(o)
    \/ \E o \in IncrementOps : MaskedIncrement(o)
    \/ PlainAssign
    \/ DoMakeZero
    \/ DoMakeZeroMasked

SpecMasked == InitMasked /\ [][NextMasked]_vars

(***************************************************************************)
(* Properties of the masked write proxy and of makeZero (SpecMasked).      *)
(***************************************************************************)
MaskedOps == AssignOps \cup IncrementOps

\* C1: after v(m) op rhs (=, +=, -=, *=, /=, ++, --) every lane selected by
\* m holds op(v_old[i], rhs[i]), every other lane holds v_old[i], v keeps its
\* Size, and m and rhs are not modified.
C1_MaskedWriteLanes ==
    (pc = "done" /\ op \in MaskedOps) =>
        /\ DOMAIN v = DOMAIN pre.v
        /\ m = pre.m /\ rhs = pre.rhs
        /\ \A i \in DOMAIN v :
              /\ ~pre.m[i] => v[i] = pre.v[i]
              /\ (pre.m[i] /\ ~(op = "/=" /\ pre.rhs[i] = 0)) =>
                    v[i] = ApplyOp(op, pre.v[i], pre.rhs[i])

\* a compound assignment through a mixed mask changed a selected lane and
\* kept a lane that the operator would have changed
C1_Witness ==
    /\ pc = "done" /\ op = "+="
    /\ \E i, j \in DOMAIN v :
          /\ pre.m[i] /\ v[i] # pre.v[i]
          /\ ~pre.m[j] /\ pre.rhs[j] # 0 /\ v[j] = pre.v[j]

\* C3: v(allTrue) = rhs leaves v as the plain assignment v = rhs does (every
\* lane equals rhs); v(allFalse) = rhs leaves every lane of v as it was.
C3_AllTrueAllFalse ==
    /\ (pc = "done" /\ op = "plain=") => v = pre.rhs
    /\ (pc = "done" /\ op = "=" /\ pre.m = AllTrue(NumLanes(pre.v))) =>
          (v = Assign(pre.v, pre.rhs) /\ \A i \in DOMAIN v : v[i] = pre.rhs[i])
    /\ (pc = "done" /\ op = "=" /\ pre.m = AllFalse(NumLanes(pre.v))) =>
          (v = pre.v)

\* an assignment through the all-true mask replaced a vector that differed
\* from rhs in every lane
C3_Witness ==
    /\ pc = "done" /\ op = "="
    /\ pre.m = AllTrue(NumLanes(pre.v))
    /\ \A i \in DOMAIN v : pre.v[i] # pre.rhs[i] /\ v[i] = pre.rhs[i]

\* C7: when every lane on which v(m) /= rhs would divide by zero is masked
\* off, the statement ends without an error, selected lanes hold the quotient
\* and the other lanes hold their old value.
C7_MaskedOffFault ==
    (pc = "done" /\ op = "/=" /\ \A i \in DOMAIN pre.v : pre.rhs[i] = 0 => ~pre.m[i]) =>
        /\ ~err
        /\ \A i \in DOMAIN v :
              v[i] = IF pre.m[i] THEN pre.v[i] \div pre.rhs[i] ELSE pre.v[i]

\* [1, 2, 1, 2] divided by [2, 0, 1, 0] through the mask 1010: both zero
\* divisors are masked off
C7_Witness ==
    /\ pc = "done" /\ op = "/=" /\ ~err
    /\ pre.v = Vec(<<1, 2, 1, 2>>) /\ pre.rhs = Vec(<<2, 0, 1, 0>>)
    /\ pre.m = Vec(<<TRUE, FALSE, TRUE, FALSE>>)
    /\ v = Vec(<<0, 2, 1, 2>>)

\* C8: makeZero(m) sets the lanes selected by m to 0 and keeps the others (a
\* 4-vector with the mask 0111 keeps its first entry and gets 0 in the last
\* three); makeZero() sets every lane to 0, as makeZero(allTrue) does.
C8_MakeZero ==
    /\ (pc = "done" /\ op = "makeZero(mask)") =>
          /\ DOMAIN v = DOMAIN pre.v
          /\ \A i \in DOMAIN v : v[i] = IF pre.m[i] THEN 0 ELSE pre.v[i]
          /\ (pre.v = Vec(<<1, 2, 1, 2>>) /\ pre.m = Vec(<<FALSE, TRUE, TRUE, TRUE>>)) =>
                v = Vec(<<1, 0, 0, 0>>)
    /\ (pc = "done" /\ op = "makeZero") =>
          /\ DOMAIN v = DOMAIN pre.v
          /\ \A i \in DOMAIN v : v[i] = 0
          /\ v = MakeZeroMasked(pre.v, AllTrue(NumLanes(pre.v)))

\* makeZero through the mask 0111 on the 4-vector [1, 2, 1, 2]
C8_Witness ==
    /\ pc = "done" /\ op = "makeZero(mask)"
    /\ pre.v = Vec(<<1, 2, 1, 2>>) /\ pre.m = Vec(<<FALSE, TRUE, TRUE, TRUE>>)
    /\ v = Vec(<<1, 0, 0, 0>>)

(***************************************************************************)
(* Comparisons: every operator returns a mask.                             *)
(***************************************************************************)
CmpOps == {"==", "!=", ">", ">=", "<", "<="}

\* (variant: the strict and the non-strict orders exchanged)
ScalarCmpOffByOne(c, a, b) ==
    CASE c = "==" -> a = b
      [] c = "!=" -> a # b
      [] c = ">"  -> a >= b
      [] c = ">=" -> a > b
      [] c = "<"  -> a <= b
      [] c = "<=" -> a < b

ScalarCmp(c, a, b) ==
    CASE c = "==" -> a = b
      [] c = "!=" -> a # b
      [] c = ">"  -> a > b
      [] c = ">=" -> a >= b
      [] c = "<"  -> a < b
      [] c = "<=" -> a <= b

Compare(c, a, b) == [i \in DOMAIN a |-> ScalarCmp(c, a[i], b[i])]

(***************************************************************************)
(* Specification SpecCmp: two vectors v and rhs of the same Size are       *)
(* compared; res is the mask returned.                                     *)
(***************************************************************************)
InitCmp ==
    /\ pc = "start" /\ op = "" /\ err = FALSE /\ pre = NoPre
    /\ \/ v \in Vectors(Size) /\ rhs \in Vectors(Size)
       \/ v \in DocVectors /\ rhs \in DocVectors
    /\ m = NoVec
    /\ Unused

\* res = (v c rhs)
DoCompare(c) ==
    /\ pc = "start"
    /\ pc' = "done" /\ op' = c /\ pre' = Snapshot
    /\ res' = Compare(c, v, rhs)
    /\ UNCHANGED <<v, rhs, m, err, v2, args, array, indexes, accesses, form, mem, fn, k>>

NextCmp == \E c \in CmpOps : DoCompare(c)

SpecCmp == InitCmp /\ [][NextCmp]_vars

\* C9: each comparison of a with b returns a mask over the lanes of a whose
\* lane i is the scalar comparison of a[i] with b[i]; a and b are not modified.
C9_CompareLanes ==
    (pc = "done" /\ op \in CmpOps) =>
        /\ DOMAIN res = DOMAIN pre.v
        /\ v = pre.v /\ rhs = pre.rhs
        /\ \A i \in DOMAIN res :
              /\ res[i] \in BOOLEAN
              /\ op = "==" => (res[i] <=> (pre.v[i] = pre.rhs[i]))
              /\ op = "!=" => (res[i] <=> (pre.v[i] # pre.rhs[i]))
              /\ op = ">"  => (res[i] <=> (pre.v[i] > pre.rhs[i]))
              /\ op = ">=" => (res[i] <=> (pre.v[i] >= pre.rhs[i]))
              /\ op = "<"  => (res[i] <=> (pre.v[i] < pre.rhs[i]))
              /\ op = "<=" => (res[i] <=> (pre.v[i] <= pre.rhs[i]))

\* a < b with a lane that is less, a lane that is equal and a lane that is
\* greater
C9_Witness ==
    /\ pc = "done" /\ op = "<"
    /\ \E i, j, l \in DOMAIN res :
          /\ pre.v[i] < pre.rhs[i] /\ res[i]
          /\ pre.v[j] = pre.rhs[j] /\ ~res[j]
          /\ pre.v[l] > pre.rhs[l] /\ ~res[l]

(***************************************************************************)
(* Specification SpecDoc: the statements of the example documented with    *)
(* operator()(mask), on 4-lane vectors.  Init is the state after           *)
(*     float_v v = float_v::Zero(); int_v v2 = int_v::IndexesFromZero();   *)
(* and the three statements follow, with their scalar operands drawn from  *)
(* small sets (the documented operands among them).  args records the      *)
(* operands of the statements executed.                                    *)
(***************************************************************************)
Thresholds == 0 .. DocSize

InitDoc ==
    /\ pc = "doc0" /\ op = "" /\ err = FALSE /\ pre = NoPre
    /\ v = Zero(DocSize)
    /\ v2 = IndexesFromZero(DocSize)
    /\ rhs = NoVec /\ m = NoVec
    /\ args = <<>> /\ array = NoVec /\ indexes = NoVec
    /\ accesses = <<>> /\ form = "" /\ res = NoVec /\ mem = NoVec
    /\ fn = NoVec /\ k = 0

DocFrame == UNCHANGED <<pre, err, array, indexes, accesses, form, res, mem, fn, k>>

\* v(v2 < t) = x;
DocAssign(t, x) ==
    /\ pc = "doc0"
    /\ pc' = "doc1" /\ op' = "="
    /\ m' = Compare("<", v2, Broadcast(NumLanes(v2), t))
    /\ rhs' = Broadcast(NumLanes(v), x)
    /\ v' = MaskedWrite("=", v, m', rhs')
    /\ args' = Append(args, <<t, x>>)
    /\ UNCHANGED v2 /\ DocFrame

\* v(v2 < t) += x;
DocAddAssign(t, x) ==
    /\ pc = "doc1"
    /\ pc' = "doc2" /\ op' = "+="
    /\ m' = Compare("<", v2, Broadcast(NumLanes(v2), t))
    /\ rhs' = Broadcast(NumLanes(v), x)
    /\ v' = MaskedWrite("+=", v, m', rhs')
    /\ args' = Append(args, <<t, x>>)
    /\ UNCHANGED v2 /\ DocFrame

\* ++v2(v < t);
DocIncrement(t) ==
    /\ pc = "doc2"
    /\ pc' = "doc3" /\ op' = "++"
    /\ m' = Compare("<", v, Broadcast(NumLanes(v), t))
    /\ rhs' = One(NumLanes(v2))
    /\ v2' = MaskedWrite("++", v2, m', rhs')
    /\ args' = Append(args, <<t, 1>>)
    /\ UNCHANGED v /\ DocFrame

NextDoc ==
    \/ \E t \in Thresholds, x \in Val : DocAssign(t, x)
    \/ \E t \in Thresholds, x \in Val : DocAddAssign(t, x)
    \/ \E t \in Thresholds : DocIncrement(t)

SpecDoc == InitDoc /\ [][NextDoc]_vars

\* C4: from v = [0,0,0,0] and v2 = [0,1,2,3], v(v2 < 2) = 1 yields
\* v = [1,1,0,0]; then v(v2 < 3) += 1 yields v = [2,2,1,0]; then ++v2(v < 1)
\* yields v2 = [0,1,2,4] and leaves v as it is.
C4_DocumentedExample ==
    /\ pc = "doc0" => (v = Vec(<<0, 0, 0, 0>>) /\ v2 = Vec(<<0, 1, 2, 3>>))
    /\ (pc = "doc1" /\ args = <<  <<2, 1>>  >>) =>
          (v = Vec(<<1, 1, 0, 0>>) /\ v2 = Vec(<<0, 1, 2, 3>>))
    /\ (pc = "doc2" /\ args = << <<2, 1>>, <<3, 1>> >>) =>
          (v = Vec(<<2, 2, 1, 0>>) /\ v2 = Vec(<<0, 1, 2, 3>>))
    /\ (pc = "doc3" /\ args = << <<2, 1>>, <<3, 1>>, <<1, 1>> >>) =>
          (v = Vec(<<2, 2, 1, 0>>) /\ v2 = Vec(<<0, 1, 2, 4>>))

\* the three documented statements have run with the documented operands
C4_Witness ==
    /\ pc = "doc3" /\ args = << <<2, 1>>, <<3, 1>>, <<1, 1>> >>
    /\ m = Vec(<<FALSE, FALSE, FALSE, TRUE>>)
    /\ v2 = Vec(<<0, 1, 2, 4>>)

(***************************************************************************)
(* Memory, the constructor from memory and operator[].                     *)
(***************************************************************************)
\* (variant: the entry next to the indexed one is written)
IndexWriteNext(vec, i, x) == [vec EXCEPT ![(i + 1) % NumLanes(vec)] = x]

\* vec[i] = x through the reference operator[](i) returns
IndexWrite(vec, i, x) == [vec EXCEPT ![i] = x]

\* (variant: the entries loaded in reverse order)
LoadVectorReversed(memory) == [i \in DOMAIN memory |-> memory[NumLanes(memory) - 1 - i]]

\* VECTOR_TYPE(ENTRY_TYPE *alignedMemory): lane i is memory[i]
LoadVector(memory) == [i \in DOMAIN memory |-> memory[i]]

(***************************************************************************)
(* Specification SpecMem: the two ways of filling a vector documented      *)
(* with Memory, one after the other, for a function fn over the lanes:     *)
(*     int_v v; for (i ...) v[i] = f(i);                                   *)
(*     int_v::Memory m; for (i ...) m[i] = f(i); int_v v2(m);              *)
(* v and mem start uninitialized: any values.  pre.v keeps the initial     *)
(* entries of v.                                                           *)
(***************************************************************************)
InitMem ==
    /\ pc = "vloop" /\ op = "" /\ err = FALSE
    /\ v \in Vectors(Size)
    /\ fn \in Vectors(Size)
    /\ pre = [NoPre EXCEPT !.v = v]
    /\ k = 0
    /\ mem = NoVec /\ v2 = NoVec
    /\ rhs = NoVec /\ m = NoVec
    /\ args = <<>> /\ array = NoVec /\ indexes = NoVec
    /\ accesses = <<>> /\ form = "" /\ res = NoVec

MemFrame == UNCHANGED <<op, rhs, m, pre, err, args, array, indexes, accesses, form, res, fn>>

\* v[k] = f(k); ++k
VectorLoopStep ==
    /\ pc = "vloop" /\ k < NumLanes(v)
    /\ v' = IndexWrite(v, k, fn[k])
    /\ k' = k + 1
    /\ UNCHANGED <<pc, mem, v2>> /\ MemFrame

\* the first loop ends; int_v::Memory m is declared
DeclareMemory ==
    /\ pc = "vloop" /\ k = NumLanes(v)
    /\ pc' = "mloop"
    /\ mem' \in Vectors(NumLanes(v))
    /\ k' = 0
    /\ UNCHANGED <<v, v2>> /\ MemFrame

\* m[k] = f(k); ++k
MemoryLoopStep ==
    /\ pc = "mloop" /\ k < NumLanes(mem)
    /\ mem' = IndexWrite(mem, k, fn[k])
    /\ k' = k + 1
    /\ UNCHANGED <<pc, v, v2>> /\ MemFrame

\* the second loop ends; int_v v2(m)
ConstructFromMemory ==
    /\ pc = "mloop" /\ k = NumLanes(mem)
    /\ pc' = "done"
    /\ v2' = LoadVector(mem)
    /\ UNCHANGED <<v, mem, k>> /\ MemFrame

NextMem ==
    \/ VectorLoopStep
    \/ DeclareMemory
    \/ MemoryLoopStep
    \/ ConstructFromMemory

SpecMem == InitMem /\ [][NextMem]_vars

\* C10: filling v lane by lane with v[i] = f(i) and filling a Memory with
\* m[i] = f(i) and constructing a vector from it end with the same vector,
\* lane i = f(i); each write through operator[](i) changes lane i only.
C10_MemoryEquivalence ==
    /\ pc = "vloop" =>
          \A i \in DOMAIN v : v[i] = IF i < k THEN fn[i] ELSE pre.v[i]
    /\ pc = "done" =>
          /\ DOMAIN v2 = DOMAIN v
          /\ \A i \in DOMAIN v : v[i] = fn[i] /\ v2[i] = fn[i]
          /\ v2 = v

\* both fills are done for a function that differs from the uninitialized
\* entries in every lane and is not constant
C10_Witness ==
    /\ pc = "done" /\ v2 = v
    /\ \A i \in DOMAIN v : pre.v[i] # fn[i]
    /\ \E i, j \in DOMAIN v : fn[i] # fn[j]

(***************************************************************************)
(* Gather and scatter.  The array holds entries (direct form), structs     *)
(* with an entry member (one-member form) or structs with a struct member  *)
(* that has an entry member (two-member form); b is a sibling member.      *)
(***************************************************************************)
Forms == {"direct", "member1", "member2"}

\* the value held by the sibling members
Other == MaxVal + 1

Element(f, x) ==
    CASE f = "direct"  -> x
      [] f = "member1" -> [member1 |-> x, b |-> Other]
      [] f = "member2" -> [member1 |-> [member2 |-> x, b |-> Other], b |-> Other]

ArrayOf(f, s) == [p \in DOMAIN s |-> Element(f, s[p])]

Arrays(f) == {ArrayOf(f, s) : s \in [Lanes(ArrayLen) -> Val]}

\* (variant: the sibling member addressed)
DerefSibling(f, e) ==
    CASE f = "direct"  -> e
      [] f = "member1" -> e.b
      [] f = "member2" -> e.member1.b

\* array[p], array[p].*member1, array[p].*member1.*member2
Deref(f, e) ==
    CASE f = "direct"  -> e
      [] f = "member1" -> e.member1
      [] f = "member2" -> e.member1.member2

\* the element e after x is stored to the addressed entry
Store(f, e, x) ==
    CASE f = "direct"  -> x
      [] f = "member1" -> [e EXCEPT !.member1 = x]
      [] f = "member2" -> [e EXCEPT !.member1.member2 = x]

\* index values: those of the array and one past its end
IndexValues(arr) == 0 .. NumLanes(arr)
IndexVectors(n, arr) == [Lanes(n) -> IndexValues(arr)]
ValidIndex(arr, p) == p \in DOMAIN arr

\* (variant: every lane's address is accessed, the mask is applied after)
RECURSIVE AccessesAllLanes(_, _, _)
AccessesAllLanes(i, idx, mask) ==
    IF i \notin DOMAIN idx THEN <<>>
    ELSE <<idx[i]>> \o AccessesAllLanes(i + 1, idx, mask)

\* the array positions accessed by the lanes i, i+1, ..., in lane order
RECURSIVE AccessesFrom(_, _, _)
AccessesFrom(i, idx, mask) ==
    IF i \notin DOMAIN idx THEN <<>>
    ELSE (IF mask[i] THEN <<idx[i]>> ELSE <<>>) \o AccessesFrom(i + 1, idx, mask)

\* an access outside the array
OutOfBounds(arr, log) == \E n \in DOMAIN log : ~ValidIndex(arr, log[n])

\* the selected lanes whose index is not one of the array
InvalidLanes(arr, idx, mask) == {i \in DOMAIN idx : mask[i] /\ ~ValidIndex(arr, idx[i])}

\* the vectors a gather can leave behind: a selected lane holds the
\* entry addressed, a lane that is not selected keeps its value, and a selected
\* lane with an invalid index holds an arbitrary value
GatherOutcomes(arr, f, idx, mask, old) ==
    {[i \in DOMAIN old |->
         IF ~mask[i] THEN old[i]
         ELSE IF i \in InvalidLanes(arr, idx, mask) THEN g[i]
         ELSE Deref(f, arr[idx[i]])] : g \in [InvalidLanes(arr, idx, mask) -> Val]}

\* (variant: the lanes that are not selected write as well)
WritersUnmasked(idx, mask, p) == {i \in DOMAIN idx : idx[i] = p}

\* the selected lanes that address position p
Writers(idx, mask, p) == {i \in DOMAIN idx : mask[i] /\ idx[i] = p}

\* what position p can hold after the scatter
ScatterCandidates(arr, f, idx, mask, vec, p) ==
    IF Writers(idx, mask, p) = {} THEN {arr[p]}
    ELSE {Store(f, arr[p], vec[i]) : i \in Writers(idx, mask, p)}

\* the arrays after the positions p, p+1, ... of a are written
RECURSIVE ScatterFrom(_, _, _, _, _, _, _)
ScatterFrom(p, a, arr, f, idx, mask, vec) ==
    IF p \notin DOMAIN arr THEN {a}
    ELSE UNION {ScatterFrom(p + 1, [a EXCEPT ![p] = c], arr, f, idx, mask, vec) :
                   c \in ScatterCandidates(arr, f, idx, mask, vec, p)}

\* the arrays a scatter can leave behind: lanes that address the same
\* position are written in no particular order
ScatterOutcomes(arr, f, idx, mask, vec) == ScatterFrom(0, arr, arr, f, idx, mask, vec)

(***************************************************************************)
(* Specification SpecGather: an array and a vector exist; one gather or    *)
(* one scatter acts.  A gather acts on a vector constructed with Zero, a   *)
(* scatter on any vector.  err records an access outside the array.        *)
(***************************************************************************)
DocArrayValues == Vec(<<10, 20, 30, 40>>)

InitGather ==
    /\ op = "" /\ err = FALSE /\ pre = NoPre
    /\ \E f \in Forms :
          /\ form = f
          /\ \/ /\ pc = "gather"
                /\ \/ array \in Arrays(f) /\ v = Zero(GatherLanes)
                   \/ array = ArrayOf(f, DocArrayValues) /\ v = Zero(DocSize)
             \/ /\ pc = "scatter"
                /\ \/ array \in Arrays(f) /\ v \in Vectors(GatherLanes)
                   \/ array = ArrayOf(f, DocArrayValues) /\ v \in DocVectors
    /\ rhs = NoVec /\ m = NoVec
    /\ v2 = NoVec /\ args = <<>> /\ indexes = NoVec
    /\ accesses = <<>> /\ res = NoVec /\ mem = NoVec
    /\ fn = NoVec /\ k = 0

GatherFrame == UNCHANGED <<rhs, v2, args, form, res, mem, fn, k>>

DoGather(name, idx, mask) ==
    /\ pc = "gather"
    /\ pc' = "done" /\ op' = name /\ pre' = Snapshot
    /\ indexes' = idx /\ m' = mask
    /\ accesses' = AccessesFrom(0, idx, mask)
    /\ err' = OutOfBounds(array, accesses')
    /\ v' \in GatherOutcomes(array, form, idx, mask, v)
    /\ UNCHANGED array /\ GatherFrame

\* VECTOR_TYPE v(array, [member1, [member2,]] indexes)
GatherConstruct ==
    /\ pc = "gather"
    /\ \E idx \in IndexVectors(NumLanes(v), array) :
          DoGather("gatherCtor", idx, AllTrue(NumLanes(v)))

\* v.gather(array, [member1, [member2,]] indexes)
Gather ==
    /\ pc = "gather"
    /\ \E idx \in IndexVectors(NumLanes(v), array) :
          DoGather("gather", idx, AllTrue(NumLanes(v)))

\* v.gather(array, [member1, [member2,]] indexes, mask)
GatherMasked ==
    /\ pc = "gather"
    /\ \E idx \in IndexVectors(NumLanes(v), array), mask \in Masks(NumLanes(v)) :
          DoGather("gatherMasked", idx, mask)

DoScatter(name, idx, mask) ==
    /\ pc = "scatter"
    /\ pc' = "done" /\ op' = name /\ pre' = Snapshot
    /\ indexes' = idx /\ m' = mask
    /\ accesses' = AccessesFrom(0, idx, mask)
    /\ err' = OutOfBounds(array, accesses')
    /\ array' \in ScatterOutcomes(array, form, idx, mask, v)
    /\ UNCHANGED v /\ GatherFrame

\* v.scatter(array, [member1, [member2,]] indexes)
Scatter ==
    /\ pc = "scatter"
    /\ \E idx \in IndexVectors(NumLanes(v), array) :
          DoScatter("scatter", idx, AllTrue(NumLanes(v)))

\* v.scatter(array, [member1, [member2,]] indexes, mask)
ScatterMasked ==
    /\ pc = "scatter"
    /\ \E idx \in IndexVectors(NumLanes(v), array), mask \in Masks(NumLanes(v)) :
          DoScatter("scatterMasked", idx, mask)

NextGather ==
    \/ GatherConstruct
    \/ Gather
    \/ GatherMasked
    \/ Scatter
    \/ ScatterMasked

SpecGather == InitGather /\ [][NextGather]_vars

ScatterOps == {"scatter", "scatterMasked"}
Selected == {i \in DOMAIN m : m[i]}

\* C2: a masked gather or scatter accesses array[indexes[i]] for the lanes
\* selected by the mask only: the positions accessed are {indexes[i] : m[i]},
\* there are as many accesses as selected lanes, and when the invalid indexes
\* are all in lanes that are not selected, no access leaves the array and no
\* error occurs.
C2_MaskedAccesses ==
    (pc = "done" /\ op \in {"gatherMasked", "scatterMasked"}) =>
        /\ {accesses[n] : n \in DOMAIN accesses} = {indexes[i] : i \in Selected}
        /\ Len(accesses) = Cardinality(Selected)
        /\ (\A i \in Selected : indexes[i] \in DOMAIN pre.array) =>
              /\ ~err
              /\ \A n \in DOMAIN accesses : accesses[n] \in DOMAIN pre.array

\* a masked gather with an invalid index in a lane that is not selected and
\* a selected lane that was read
C2_Witness ==
    /\ pc = "done" /\ op = "gatherMasked" /\ ~err
    /\ \E i, j \in DOMAIN m :
          /\ ~m[i] /\ indexes[i] \notin DOMAIN array
          /\ m[j] /\ accesses = <<indexes[j]>>

\* C5: after an unmasked gather with valid indexes, lane i holds
\* array[indexes[i]] (direct), array[indexes[i]].member1 (one member) or
\* array[indexes[i]].member1.member2 (two members) and the array is as it was;
\* array = [10,20,30,40] with indexes = [3,1,0,2] yields [40,20,10,30].
C5_GatherLanes ==
    (pc = "done" /\ op \in {"gatherCtor", "gather"}
       /\ \A i \in DOMAIN indexes : indexes[i] \in DOMAIN pre.array) =>
        /\ array = pre.array
        /\ DOMAIN v = DOMAIN indexes
        /\ \A i \in DOMAIN v :
              /\ form = "direct"  => v[i] = array[indexes[i]]
              /\ form = "member1" => v[i] = array[indexes[i]].member1
              /\ form = "member2" => v[i] = array[indexes[i]].member1.member2
        /\ (form = "direct" /\ array = Vec(<<10, 20, 30, 40>>)
              /\ indexes = Vec(<<3, 1, 0, 2>>)) => v = Vec(<<40, 20, 10, 30>>)

\* the gather of the example
C5_Witness ==
    /\ pc = "done" /\ op = "gatherCtor" /\ form = "direct"
    /\ array = Vec(<<10, 20, 30, 40>>) /\ indexes = Vec(<<3, 1, 0, 2>>)
    /\ v = Vec(<<40, 20, 10, 30>>)

\* C6: after a scatter with valid indexes in the selected lanes, a position
\* addressed by selected lanes holds v[j] for one of them (the only one when
\* there is one), a position addressed by no selected lane is as it was, and
\* v is as it was.
C6_ScatterPositions ==
    (pc = "done" /\ op \in ScatterOps /\ ~err) =>
        /\ v = pre.v
        /\ DOMAIN array = DOMAIN pre.array
        /\ \A p \in DOMAIN array :
              LET W == {i \in Selected : indexes[i] = p} IN
              /\ W = {} => array[p] = pre.array[p]
              /\ W # {} => \E j \in W :
                    /\ form = "direct"  => array[p] = v[j]
                    /\ form = "member1" =>
                          array[p] = [member1 |-> v[j], b |-> pre.array[p].b]
                    /\ form = "member2" =>
                          array[p] = [member1 |-> [member2 |-> v[j],
                                                   b |-> pre.array[p].member1.b],
                                      b |-> pre.array[p].b]

\* two selected lanes with different values scattered to one position, and
\* a position that no lane addresses
C6_Witness ==
    /\ pc = "done" /\ op = "scatterMasked" /\ ~err
    /\ \E i, j \in Selected : i # j /\ indexes[i] = indexes[j] /\ v[i] # v[j]
    /\ \E p \in DOMAIN array :
          /\ \A i \in DOMAIN indexes : indexes[i] # p
          /\ array[p] = pre.array[p]

====
